---- MODULE Spec2Model ----
(***************************************************************************)
(* State-machine model of the Redis client core in src/index.js:           *)
(* RedisClient (connection lifecycle, send_command gating, the offline and *)
(* the command queue, reply dispatch, pub/sub overlay, reconnection).      *)
(*                                                                         *)
(* Every handler of the client runs to completion (single-threaded host),  *)
(* so each handler is one action.  Handlers call each other synchronously  *)
(* (return_reply -> callback -> on_info_cmd -> on_ready -> send_command);  *)
(* they are therefore written as operators that map a record of the whole  *)
(* state to the record after the call, and an action commits the record    *)
(* its handler returns.                                                    *)
(***************************************************************************)
EXTENDS Integers, Sequences, FiniteSets, TLC

VARIABLES
    stream,            \* this.stream: id of the transport the client writes to
    streams,           \* every transport constructed so far, with the server behind it
    connected, ready, closing, monitoring, pub_sub_mode,
    selected_db,       \* 0 is null
    subscription_set,  \* keys of the object, in insertion order
    should_buffer, commands_sent,
    attempts, retry_delay, retry_totaltime, retry_timer,
    old_state, emitted_end,
    command_queue, offline_queue,
    auth_pass, auth_callback,
    info_timer,        \* pending setTimeout of on_info_cmd (re-probe)
    auth_timer,        \* pending setTimeout of do_auth (LOADING)
    pending_timers,    \* the retry timeouts that are scheduled (retry_timer is the handle)
    hung,              \* the client is in a loop that never ends
    pushes,            \* pushes the server has sent so far
    loadings,          \* answers "still loading" the server has given so far
    callback_count,    \* the counter of each on_ready closure, by closure number
    options,           \* the options the client was constructed with
    next_id,           \* number of user submissions so far
    calls,             \* per user command: the invocations of its callback
    written,           \* the user commands written to a transport, in the order written
    trace              \* what the last handler did, in order: writes, events, callbacks

vars == << stream, streams, connected, ready, closing, monitoring, pub_sub_mode,
           selected_db, subscription_set, should_buffer, commands_sent,
           attempts, retry_delay, retry_totaltime, retry_timer,
           old_state, emitted_end, command_queue, offline_queue,
           auth_pass, auth_callback, info_timer, auth_timer, pending_timers,
           hung, pushes, loadings, callback_count, options, next_id, calls, written, trace >>

-----------------------------------------------------------------------------
(* Bounds of the model *)

\* user submissions (send_command, select, auth) in one behaviour
MaxCmds == 3
\* transports constructed in one behaviour: the first and the reconnections
MaxStreams == 3
\* pub/sub and monitor pushes the server sends in one behaviour
MaxPush == 2
\* answers "still loading" (to INFO or AUTH) the server gives in one behaviour
MaxLoading == 1

(* Program constants *)

DefaultHighWater == 1000
DefaultConnectTimeout == 86400000
InitialRetryDelay == 200
\* retry_backoff 1.7 as a fraction
BackoffNum == 17
BackoffDen == 10
MaxReprobeDelay == 1000

Channels == {"a", "b"}
NullArg == "NULL"

-----------------------------------------------------------------------------
(* Records *)

\* function Command(command, args, sub_command, buffer_args, callback); the
\* callback is a closure, named here by what it is (cb) and what it holds.
\*   cb: "none" | "user" | "info" | "auth" | "resub" | "select"
\*   ucb: the user's own callback exists (cb "user": always; cb "select": optional)
\*   gen: the on_ready closure of a "resub" callback, the db of a "select" one
\*   seq: the position of the command among all commands written (0: not written)
Command(id, command, args, sub_command, cb, ucb, gen) ==
    [id |-> id, command |-> command, args |-> args, sub_command |-> sub_command,
     cb |-> cb, ucb |-> ucb, gen |-> gen, seq |-> 0]

NoCommand == Command(0, "", <<>>, FALSE, "none", FALSE, 0)

\* A reply as the parser hands it over.
\*   rt: "value" (status, integer, bulk) | "error" | "array"
\*   rid: the written command the server produced it for (0: a push)
\*   kind: array replies: reply[0]; errors: the error text; info: "loading"/"loaded"
Reply(rt, rid, kind, chan, count) ==
    [rt |-> rt, rid |-> rid, kind |-> kind, chan |-> chan, count |-> count]

NullOldState == [set |-> FALSE, monitoring |-> FALSE, pub_sub_mode |-> FALSE, selected_db |-> 0]

\*   srv_q: the commands written to the transport that the server has not
\*          answered in full; srv_partial: it has answered the oldest in part
\*   srv_n: the number of commands written to the transport so far
NoStream == [state |-> "none", need_drain |-> FALSE, srv_q |-> <<>>, srv_partial |-> FALSE,
             srv_n |-> 0, srv_subs |-> {}, srv_monitor |-> FALSE, listeners |-> FALSE]

NewStream == [NoStream EXCEPT !.state = "connecting", !.listeners = TRUE]

\* a transport that is gone for good: nothing of it can matter any more
DeadStream == [NoStream EXCEPT !.state = "closed"]

\* stream.writable
Writable(s) == s.streams[s.stream].state \in {"connecting", "open"}

HighWater(s) ==
    IF s.options.command_queue_high_water = 0 THEN DefaultHighWater
    ELSE s.options.command_queue_high_water

LowWater(s) == s.options.command_queue_low_water

ConnectTimeout(s) ==
    IF s.options.connect_timeout = 0 THEN DefaultConnectTimeout
    ELSE s.options.connect_timeout

-----------------------------------------------------------------------------
(* What a handler leaves behind *)

TraceEntry(t, name, id, ch, n) == [t |-> t, name |-> name, id |-> id, ch |-> ch, n |-> n]

Emit(s, name, ch, n) ==
    [s EXCEPT !.trace = Append(@, TraceEntry("emit", name, 0, ch, n))]

\* the user's callback of command id is invoked with (err, reply); seq is the
\* command's position among the written commands and rid the position of the
\* written command the server produced the reply for
UserCallback(s, id, seq, err, ch, rid) ==
    [s EXCEPT !.calls[id] = Append(@, [err |-> err, ch |-> ch, rid |-> rid, seq |-> seq]),
              !.trace = Append(@, TraceEntry("cb", err, id, ch, rid))]

\* the transport hands the bytes of one reply to on_data
Data(s, reply) ==
    [s EXCEPT !.trace = Append(@, TraceEntry("data", reply.kind, reply.rid, reply.chan, reply.count))]

\* the transport sid, or a timer, calls its listener
Event(s, name, sid) ==
    [s EXCEPT !.trace = Append(@, TraceEntry("event", name, sid, "", 0))]

\* the user calls a method of the client that is not a command
Call(s, name) ==
    [s EXCEPT !.trace = Append(@, TraceEntry("call", name, 0, "", 0))]

\* what the user's call of a command returns: send_command's return value;
\* the entry also says whether the call passed a callback
Return(s, command, id, with_callback) ==
    [s EXCEPT !.trace = Append(@, TraceEntry("ret", command, id,
                                             IF with_callback THEN "callback" ELSE "",
                                             IF s.ret THEN 1 ELSE 0))]

ArgOrNone(args) == IF Len(args) > 0 THEN args[1] ELSE ""

\* stream.write of one whole command.  The transport reports "buffer full"
\* (returns false) while it waits for its drain; s.bp is the handler's input
\* "the transport's buffer fills up during this handler".
StreamWrite(s, cmd) ==
    LET full == s.streams[s.stream].need_drain \/ s.bp
    IN  [s EXCEPT !.streams[s.stream].srv_q = Append(@, cmd),
                  !.streams[s.stream].srv_n = @ + 1,
                  !.written = IF cmd.id > 0 THEN Append(@, cmd.id) ELSE @,
                  !.streams[s.stream].need_drain = full,
                  !.wrote_ok = ~full,
                  !.trace = Append(@, TraceEntry("write", cmd.command, cmd.id,
                                                 ArgOrNone(cmd.args), s.stream))]

-----------------------------------------------------------------------------
(* The pub/sub overlay's bookkeeping *)

IsSubscribeFamily(command) ==
    command \in {"subscribe", "psubscribe", "unsubscribe", "punsubscribe"}

HasKey(set, key) == \E i \in 1..Len(set) : set[i] = key

\* this.subscription_set[key + " " + args[i]] = true, for each argument
RECURSIVE AddKeys(_, _, _)
AddKeys(set, key, args) ==
    IF args = <<>> THEN set
    ELSE AddKeys(IF HasKey(set, <<key, Head(args)>>) THEN set
                 ELSE Append(set, <<key, Head(args)>>),
                 key, Tail(args))

\* delete this.subscription_set[key + " " + args[i]], for each argument
DelKeys(set, key, args) ==
    SelectSeq(set, LAMBDA k : ~(k[1] = key /\ \E i \in 1..Len(args) : args[i] = k[2]))

pub_sub_command(s, command_obj) ==
    LET key == IF command_obj.command \in {"subscribe", "unsubscribe"} THEN "sub" ELSE "psub"
    IN  [s EXCEPT !.pub_sub_mode = TRUE,
                  !.subscription_set =
                      IF command_obj.command \in {"subscribe", "psubscribe"}
                      THEN AddKeys(@, key, command_obj.args)
                      ELSE DelKeys(@, key, command_obj.args)]

-----------------------------------------------------------------------------
(* Callbacks invoked with an error the client itself produced (a validation *)
(* failure, "stream not writeable", the flush of connection_gone).  None of *)
(* these error texts matches /LOADING/ or /no password is set/.             *)

HasCallback(command_obj) == command_obj.cb # "none"

\* the callback that do_auth hands to send_command, called with such an error
do_auth_callback_err(s, err) ==
    IF s.auth_callback # 0
    THEN \* self.auth_callback(err); self.auth_callback = null; and then
         \* res = res.toString() with res undefined: a TypeError
         [UserCallback(s, s.auth_callback, 0, err, "", 0)
            EXCEPT !.auth_callback = 0, !.thrown = TRUE]
    ELSE Emit(s, "error", err, 0)

\* the closure of on_ready: callback_count--; emit ready at 0 (err is ignored)
resubscribe_callback(s, gen) ==
    LET n == s.callback_count[gen] - 1
        s1 == [s EXCEPT !.callback_count[gen] = n]
    IN  IF n = 0 THEN Emit(s1, "ready", "", gen) ELSE s1

CallErr(s, command_obj, err, rid) ==
    CASE command_obj.cb = "user"   -> UserCallback(s, command_obj.id, command_obj.seq, err, "", rid)
      [] command_obj.cb = "select" ->
            IF command_obj.ucb THEN UserCallback(s, command_obj.id, command_obj.seq, err, "", rid)
            ELSE Emit(s, "error", err, 0)
      [] command_obj.cb = "info"   -> Emit(s, "error", "Ready check failed", 0)
      [] command_obj.cb = "auth"   -> do_auth_callback_err(s, err)
      [] command_obj.cb = "resub"  -> resubscribe_callback(s, command_obj.gen)
      [] OTHER -> s

-----------------------------------------------------------------------------
(* RedisClient.prototype.send_command *)

CallbackRef(id, cb, ucb, gen) == [id |-> id, cb |-> cb, ucb |-> ucb, gen |-> gen]
NoCallback(id) == CallbackRef(id, "none", FALSE, 0)
UserCb(id) == CallbackRef(id, "user", TRUE, 0)

\* variant: the high-water test is "exceeds" where the code has "meets or exceeds"
send_command_return_above(s) ==
    LET buffered_writes == ~s.wrote_ok
        full == buffered_writes \/ Len(s.command_queue) > HighWater(s)
    IN  [s EXCEPT !.should_buffer = @ \/ full,
                  !.ret = ~(s.should_buffer \/ full)]

\* lines 793-796, s being the state after the writes
send_command_return(s) ==
    LET buffered_writes == ~s.wrote_ok
        full == buffered_writes \/ Len(s.command_queue) >= HighWater(s)
    IN  [s EXCEPT !.should_buffer = @ \/ full,
                  !.ret = ~(s.should_buffer \/ full)]

\* lines 746-796: the command is accepted: queue it, count it, write it
send_command_write(s, command_obj0) ==
    LET command_obj == [command_obj0 EXCEPT !.seq = s.commands_sent + 1]
    IN  send_command_return(
            StreamWrite([s EXCEPT !.command_queue = Append(@, command_obj),
                                  !.commands_sent = @ + 1],
                        command_obj))

\* variant: pub/sub mode does not reject the other commands
send_command_modal_permissive(s, command_obj) ==
    LET command == command_obj.command
    IN  IF IsSubscribeFamily(command)
        THEN send_command_write(pub_sub_command(s, command_obj),
                                [command_obj EXCEPT !.sub_command = TRUE])
        ELSE IF command = "monitor"
        THEN send_command_write([s EXCEPT !.monitoring = TRUE], command_obj)
        ELSE IF command = "quit"
        THEN send_command_write([s EXCEPT !.closing = TRUE], command_obj)
        ELSE send_command_write(s, command_obj)

\* lines 736-745: modal routing
send_command_modal(s, command_obj) ==
    LET command == command_obj.command
    IN  IF IsSubscribeFamily(command)
        THEN send_command_write(pub_sub_command(s, command_obj),
                                [command_obj EXCEPT !.sub_command = TRUE])
        ELSE IF command = "monitor"
        THEN send_command_write([s EXCEPT !.monitoring = TRUE], command_obj)
        ELSE IF command = "quit"
        THEN send_command_write([s EXCEPT !.closing = TRUE], command_obj)
        ELSE IF s.pub_sub_mode
        THEN [Emit(s, "error", "subscriber mode", command_obj.id) EXCEPT !.ret = FALSE]
        ELSE send_command_write(s, command_obj)

\* variant: the command is queued offline and should_buffer is left as it is
send_command_offline_unbuffered(s, command_obj) ==
    IF s.options.enable_offline_queue
    THEN [s EXCEPT !.offline_queue = Append(@, command_obj),
                   !.ret = ~s.should_buffer]
    ELSE IF HasCallback(command_obj)
    THEN [CallErr(s, command_obj, "stream not writeable", 0) EXCEPT !.ret = FALSE]
    ELSE [Emit(s, "error", "stream not writeable", command_obj.id) EXCEPT !.ret = FALSE]

\* lines 715-734: not ready, or the transport is not writable
send_command_offline(s, command_obj) ==
    IF s.options.enable_offline_queue
    THEN [s EXCEPT !.offline_queue = Append(@, command_obj),
                   !.should_buffer = TRUE,
                   !.ret = FALSE]
    ELSE IF HasCallback(command_obj)
    THEN [CallErr(s, command_obj, "stream not writeable", 0) EXCEPT !.ret = FALSE]
    ELSE [Emit(s, "error", "stream not writeable", command_obj.id) EXCEPT !.ret = FALSE]

send_command(s, command, args, callback, send_anyway) ==
    LET command_obj == Command(callback.id, command, args, FALSE,
                               callback.cb, callback.ucb, callback.gen)
    IN  IF command \in {"set", "setex"} /\ Len(args) = 0
        THEN [s EXCEPT !.ret = FALSE]
        ELSE IF command \in {"set", "setex"} /\ args[Len(args)] = NullArg
        THEN IF HasCallback(command_obj)
             THEN [CallErr(s, command_obj, "value must not be undefined or null", 0)
                     EXCEPT !.ret = FALSE]
             ELSE [Emit(s, "error", "value must not be undefined or null", command_obj.id)
                     EXCEPT !.ret = FALSE]
        ELSE IF (~s.ready /\ ~send_anyway) \/ ~Writable(s)
        THEN send_command_offline(s, command_obj)
        ELSE send_command_modal(s, command_obj)

-----------------------------------------------------------------------------
(* Readiness: send_offline_queue, ready_check, on_ready, on_info_cmd *)

\* the while loop of send_offline_queue.  An entry that send_command puts
\* back into the offline queue is shifted again; after as many iterations as
\* the queue was long with the queue no shorter, the loop never ends (hung).
RECURSIVE send_offline_loop(_, _, _)
\* buffered_writes += !this.send_command(...), s being the state after the call
send_offline_next(s, buffered_writes, fuel) ==
    send_offline_loop(s, buffered_writes + (IF s.ret THEN 0 ELSE 1), fuel - 1)

send_offline_loop(s, buffered_writes, fuel) ==
    IF Len(s.offline_queue) = 0 THEN [s EXCEPT !.ret = (buffered_writes = 0)]
    ELSE IF fuel = 0 THEN [s EXCEPT !.hung = TRUE, !.ret = FALSE]
    ELSE LET command_obj == Head(s.offline_queue)
         IN  send_offline_next(
                 send_command([s EXCEPT !.offline_queue = Tail(@)],
                              command_obj.command, command_obj.args,
                              CallbackRef(command_obj.id, command_obj.cb,
                                          command_obj.ucb, command_obj.gen),
                              FALSE),
                 buffered_writes, fuel)

\* lines 408-411, s being the state after the loop
send_offline_drain(s) ==
    IF s.hung THEN s
    ELSE IF s.ret    \* !buffered_writes
    THEN Emit([s EXCEPT !.should_buffer = FALSE], "drain", "", 0)
    ELSE s

send_offline_queue(s) ==
    send_offline_drain(send_offline_loop(s, 0, Len(s.offline_queue)))

InfoCb == CallbackRef(0, "info", FALSE, 0)
AuthCb == CallbackRef(0, "auth", FALSE, 0)

\* send_anyway is true exactly around the send_command of ready_check and do_auth
ready_check(s) == send_command(s, "info", <<>>, InfoCb, TRUE)

do_auth(s) == send_command(s, "auth", <<"pass">>, AuthCb, TRUE)

DbArg(db) == ToString(db)

\* the forEach of on_ready over Object.keys(subscription_set)
RECURSIVE resubscribe_all(_, _, _)
resubscribe_all(s, keys, gen) ==
    IF keys = <<>> THEN s
    ELSE LET key == Head(keys)
         IN  resubscribe_all(
                 send_command([s EXCEPT !.callback_count[gen] = @ + 1],
                              key[1] \o "scribe", <<key[2]>>,
                              CallbackRef(0, "resub", FALSE, gen), FALSE),
                 Tail(keys), gen)

\* lines 299-306: restore the modal state of the previous connection
on_ready_restore(s) ==
    IF s.old_state.set
    THEN [s EXCEPT !.ready = TRUE,
                   !.monitoring = s.old_state.monitoring,
                   !.pub_sub_mode = s.old_state.pub_sub_mode,
                   !.selected_db = s.old_state.selected_db,
                   !.old_state = NullOldState]
    ELSE [s EXCEPT !.ready = TRUE]

\* this.pub_sub_mode = pub_sub_mode, after the send_command of select
WithMode(s, mode) == [s EXCEPT !.pub_sub_mode = mode]

\* lines 309-316: select the database of the previous connection
on_ready_select(s) ==
    IF s.selected_db # 0
    THEN WithMode(send_command([s EXCEPT !.pub_sub_mode = FALSE], "select",
                               <<DbArg(s.selected_db)>>, NoCallback(0), FALSE),
                  s.pub_sub_mode)
    ELSE s

\* line 340
emit_ready(s) == IF s.hung THEN s ELSE Emit(s, "ready", "", 0)

\* lines 317-340
on_ready_modes(s) ==
    IF s.pub_sub_mode
    THEN resubscribe_all([s EXCEPT !.callback_count = Append(@, 0)],
                         s.subscription_set, Len(s.callback_count) + 1)
    ELSE IF s.monitoring
    THEN emit_ready(send_command(s, "monitor", <<>>, NoCallback(0), FALSE))
    ELSE emit_ready(send_offline_queue(s))

\* variant: the database is selected after the offline queue has been sent
on_ready_select_last(s) == on_ready_select(on_ready_modes(on_ready_restore(s)))

on_ready(s) == on_ready_modes(on_ready_select(on_ready_restore(s)))

\* retry_time = obj.loading_eta_seconds * 1000, at most 1000
RetryTime(eta) == IF eta * 1000 > MaxReprobeDelay THEN MaxReprobeDelay ELSE eta * 1000

\* variant: the client is made ready whatever INFO says
on_info_cmd_eager(s, reply) == on_ready(s)

\* on_info_cmd(null, res): res says "loaded" (loading absent or 0) or "loading"
on_info_cmd(s, reply) ==
    IF reply.kind # "loading"
    THEN on_ready(s)
    ELSE [s EXCEPT !.info_timer = Append(@, RetryTime(reply.count))]

initialize_retry_vars(s) ==
    [s EXCEPT !.retry_timer = 0,
              !.retry_totaltime = 0,
              !.retry_delay = InitialRetryDelay,
              !.attempts = 1]

\* lines 216-232, and lines 256-263 of on_connect
now_ready_check(s) ==
    IF s.options.no_ready_check THEN on_ready(s) ELSE ready_check(s)

now_connected(s) == now_ready_check(initialize_retry_vars(Emit(s, "connect", "", 0)))

\* the callback of do_auth, called with (null, res) or with a server error
do_auth_callback(s, reply) ==
    IF reply.rt = "error" /\ reply.kind = "LOADING"
    THEN [s EXCEPT !.auth_timer = @ + 1]
    ELSE IF reply.rt = "error" /\ reply.kind # "no password is set"
    THEN do_auth_callback_err(s, reply.kind)
    ELSE now_connected(IF s.auth_callback # 0
                       THEN [UserCallback(s, s.auth_callback, 0, "", "", reply.rid)
                               EXCEPT !.auth_callback = 0]
                       ELSE s)

-----------------------------------------------------------------------------
(* Reply dispatch: return_reply, return_error, on_data *)

\* command_obj.callback(null, reply); ch is the reply as the callback sees it
CallReply(s, command_obj, reply, ch) ==
    CASE command_obj.cb = "user"   -> UserCallback(s, command_obj.id, command_obj.seq, "", ch, reply.rid)
      [] command_obj.cb = "select" ->
            \* the wrapper of RedisClient.prototype.select
            LET s1 == [s EXCEPT !.selected_db = command_obj.gen]
            IN  IF command_obj.ucb
                THEN UserCallback(s1, command_obj.id, command_obj.seq, "", ch, reply.rid)
                ELSE s1
      [] command_obj.cb = "info"   -> on_info_cmd(s, reply)
      [] command_obj.cb = "auth"   -> do_auth_callback(s, reply)
      [] command_obj.cb = "resub"  -> resubscribe_callback(s, command_obj.gen)
      [] OTHER -> s

\* command_obj.callback(err) with a server error
CallServerError(s, command_obj, reply) ==
    IF command_obj.cb = "auth" THEN do_auth_callback(s, reply)
    ELSE CallErr(s, command_obj, reply.kind, reply.rid)

\* variant: should_buffer is cleared without the drain event
after_shift_silent(s) ==
    LET queue_len == Len(s.command_queue)
        s1 == IF ~s.pub_sub_mode /\ queue_len = 0 THEN Emit(s, "idle", "", 0) ELSE s
    IN  IF s1.should_buffer /\ queue_len <= LowWater(s1)
        THEN [s1 EXCEPT !.should_buffer = FALSE]
        ELSE s1

\* variant: idle is emitted in pub/sub mode as well
after_shift_idle_in_pub_sub(s) ==
    LET queue_len == Len(s.command_queue)
        s1 == IF queue_len = 0 THEN Emit(s, "idle", "", 0) ELSE s
    IN  IF s1.should_buffer /\ queue_len <= LowWater(s1)
        THEN [Emit(s1, "drain", "", 0) EXCEPT !.should_buffer = FALSE]
        ELSE s1

\* lines 578-585, the same in return_error (lines 509-516)
after_shift(s) ==
    LET queue_len == Len(s.command_queue)
        s1 == IF ~s.pub_sub_mode /\ queue_len = 0 THEN Emit(s, "idle", "", 0) ELSE s
    IN  IF s1.should_buffer /\ queue_len <= LowWater(s1)
        THEN [Emit(s1, "drain", "", 0) EXCEPT !.should_buffer = FALSE]
        ELSE s1

\* lines 517-521, s being the state after the shift and the events
return_error_dispatch(s, command_obj, reply) ==
    IF HasCallback(command_obj)
    THEN CallServerError(s, command_obj, reply)
    ELSE Emit(s, "error", reply.kind, reply.rid)

return_error(s, reply) ==
    IF Len(s.command_queue) = 0
    THEN \* command_obj is undefined: command_obj.command is a TypeError
         [s EXCEPT !.thrown = TRUE]
    ELSE return_error_dispatch(after_shift([s EXCEPT !.command_queue = Tail(@)]),
                               Head(s.command_queue), reply)

IsPushType(type) == type \in {"message", "pmessage"}
IsControlType(type) == type \in {"subscribe", "unsubscribe", "psubscribe", "punsubscribe"}

\* lines 604-634: the pub/sub branch; has_cmd: command_obj is defined
return_reply_pub_sub(s, has_cmd, command_obj, reply) ==
    IF reply.rt = "array"
    THEN IF reply.kind = "message"
         THEN Emit(s, "message", reply.chan, 0)
         ELSE IF reply.kind = "pmessage"
         THEN Emit(s, "pmessage", reply.chan, 0)
         ELSE IF IsControlType(reply.kind)
         THEN Emit(IF has_cmd /\ HasCallback(command_obj)
                   THEN CallReply([s EXCEPT !.pub_sub_mode = (reply.count # 0)],
                                  command_obj, reply, reply.chan)
                   ELSE [s EXCEPT !.pub_sub_mode = (reply.count # 0)],
                   reply.kind, reply.chan, reply.count)
         ELSE Emit(s, "error", "unknown reply type", 0)
    ELSE IF ~s.closing
    THEN Emit(s, "error", "invalid reply", 0)
    ELSE s

\* lines 587-645, s being the state after the shift and the events
return_reply_dispatch(s, has_cmd, command_obj, reply) ==
    IF has_cmd /\ ~command_obj.sub_command
    THEN IF HasCallback(command_obj)
         THEN CallReply(s, command_obj, reply, reply.chan)
         ELSE s
    ELSE IF s.pub_sub_mode \/ (has_cmd /\ command_obj.sub_command)
    THEN return_reply_pub_sub(s, has_cmd, command_obj, reply)
    ELSE IF s.monitoring
    THEN IF reply.rt = "value"
         THEN Emit(s, "monitor", reply.kind, 0)
         ELSE \* reply.slice(...).split is not a function
              [s EXCEPT !.thrown = TRUE]
    ELSE Emit(s, "error", "command queue state error", 0)

\* variant: a push is taken for the reply to the oldest pending command
IsPush_never(s, reply) == FALSE

\* lines 566-574: a push does not shift the command queue
IsPush(s, reply) == s.pub_sub_mode /\ reply.rt = "array" /\ IsPushType(reply.kind)

\* variant: the reply is paired with the newest pending command, not the oldest
return_reply_newest(s, reply) ==
    LET has_cmd == ~IsPush(s, reply) /\ Len(s.command_queue) > 0
        n == Len(s.command_queue)
    IN  return_reply_dispatch(
            after_shift(IF has_cmd THEN [s EXCEPT !.command_queue = SubSeq(@, 1, n - 1)]
                        ELSE s),
            has_cmd,
            IF has_cmd THEN s.command_queue[n] ELSE NoCommand,
            reply)

return_reply(s, reply) ==
    LET has_cmd == ~IsPush(s, reply) /\ Len(s.command_queue) > 0
    IN  return_reply_dispatch(
            after_shift(IF has_cmd THEN [s EXCEPT !.command_queue = Tail(@)] ELSE s),
            has_cmd,
            IF has_cmd THEN Head(s.command_queue) ELSE NoCommand,
            reply)

\* on_data: the parser hands each reply to return_error or return_reply; an
\* exception from there is caught and emitted as an error event
on_data_catch(s) ==
    IF s.thrown
    THEN [Emit(s, "error", "TypeError", 0) EXCEPT !.thrown = FALSE]
    ELSE s

on_data(s, reply) ==
    on_data_catch(IF reply.rt = "error" THEN return_error(s, reply)
                  ELSE return_reply(s, reply))

-----------------------------------------------------------------------------
(* Connection loss and reconnection *)

\* one while loop of flush_and_error; a callback that throws ends it
RECURSIVE flush_queue(_, _, _)
flush_queue(s, queue, message) ==
    IF queue = <<>> \/ s.thrown THEN s
    ELSE LET command_obj == Head(queue)
         IN  flush_queue(IF HasCallback(command_obj)
                         THEN CallErr(s, command_obj, message, 0)
                         ELSE s,
                         Tail(queue), message)

\* the queue a while loop of flush_and_error leaves when a callback throws:
\* the entries behind the one whose callback threw
RECURSIVE flush_rest(_, _, _)
flush_rest(s, queue, message) ==
    IF queue = <<>> THEN <<>>
    ELSE LET command_obj == Head(queue)
             s1 == IF HasCallback(command_obj)
                   THEN CallErr(s, command_obj, message, 0) ELSE s
         IN  IF s1.thrown THEN Tail(queue) ELSE flush_rest(s1, Tail(queue), message)

\* variant: the queues are emptied and no callback is invoked
flush_and_error_dropping(s, message) ==
    [s EXCEPT !.offline_queue = <<>>, !.command_queue = <<>>]

\* lines 155-161, s being the state after the first loop (s0 before it)
flush_command_queue(s, s0, message) ==
    IF s.thrown
    THEN [s EXCEPT !.offline_queue = flush_rest(s0, s0.offline_queue, message)]
    ELSE LET s2 == [s EXCEPT !.offline_queue = <<>>]
             s3 == flush_queue(s2, s2.command_queue, message)
         IN  [s3 EXCEPT !.command_queue =
                            IF s3.thrown
                            THEN flush_rest(s2, s2.command_queue, message)
                            ELSE <<>>]

flush_and_error(s, message) ==
    flush_command_queue(flush_queue(s, s.offline_queue, message), s, message)

\* nextDelay = Math.floor(this.retry_delay * this.retry_backoff), capped
NextRetryDelay(s) ==
    LET nextDelay == (s.retry_delay * BackoffNum) \div BackoffDen
    IN  IF s.options.retry_max_delay # 0 /\ nextDelay > s.options.retry_max_delay
        THEN s.options.retry_max_delay
        ELSE nextDelay

NewTimer(s) ==
    CHOOSE n \in 1..(Cardinality(s.pending_timers) + 1) : n \notin s.pending_timers

\* lines 462-487, s holding the new retry_delay
schedule_retry_timer(s) ==
    IF s.options.max_attempts # 0 /\ s.attempts >= s.options.max_attempts
    THEN Emit([s EXCEPT !.retry_timer = 0], "error",
              "maximum connection attempts exceeded", 0)
    ELSE [s EXCEPT !.attempts = @ + 1,
                   !.trace = Append(@, TraceEntry("emit", "reconnecting",
                                                  s.attempts + 1, "", s.retry_delay)),
                   !.retry_timer = NewTimer(s),
                   !.pending_timers = @ \cup {NewTimer(s)}]

\* lines 453-487: schedule the reconnection
schedule_retry(s) == schedule_retry_timer([s EXCEPT !.retry_delay = NextRetryDelay(s)])

\* lines 426-436
save_old_state(s) ==
    IF ~s.old_state.set
    THEN [s EXCEPT !.old_state = [set |-> TRUE, monitoring |-> s.monitoring,
                                  pub_sub_mode |-> s.pub_sub_mode,
                                  selected_db |-> s.selected_db],
                   !.monitoring = FALSE,
                   !.pub_sub_mode = FALSE,
                   !.selected_db = 0]
    ELSE s

\* variant: every connection_gone that passes its guard emits end
emit_end_always(s) == [Emit(s, "end", "", 0) EXCEPT !.emitted_end = TRUE]

\* lines 438-442
emit_end_once(s) ==
    IF ~s.emitted_end THEN [Emit(s, "end", "", 0) EXCEPT !.emitted_end = TRUE] ELSE s

\* lines 446-487, s being the state after flush_and_error
connection_gone_retry(s) ==
    IF s.thrown THEN s
    ELSE IF s.closing THEN [s EXCEPT !.retry_timer = 0]
    ELSE schedule_retry(s)

\* variant: no guard on retry_timer
connection_gone_unguarded(s, why) ==
    connection_gone_retry(
        flush_and_error(
            emit_end_once(save_old_state([s EXCEPT !.connected = FALSE,
                                                   !.ready = FALSE])),
            "connection gone"))

connection_gone(s, why) ==
    IF s.retry_timer # 0 THEN s
    ELSE connection_gone_retry(
             flush_and_error(
                 emit_end_once(save_old_state([s EXCEPT !.connected = FALSE,
                                                        !.ready = FALSE])),
                 "connection gone"))

\* lines 175-181, s being the state after flush_and_error
on_error_gone(s) ==
    IF s.thrown THEN s
    ELSE connection_gone(Emit([s EXCEPT !.connected = FALSE, !.ready = FALSE],
                              "error", "connection failed", 0),
                         "error")

on_error(s, msg) ==
    IF s.closing THEN s
    ELSE on_error_gone(flush_and_error(s, "connection failed"))

\* variant: the password is not sent
on_connect_auth_skipped(s) == now_connected(s)

\* lines 253-264
on_connect_auth(s) == IF s.auth_pass THEN do_auth(s) ELSE now_connected(s)

on_connect(s) ==
    on_connect_auth([s EXCEPT !.connected = TRUE,
                              !.ready = FALSE,
                              !.command_queue = <<>>,
                              !.emitted_end = FALSE])

-----------------------------------------------------------------------------
(* The server behind a transport *)

RECURSIVE SetToSeq(_)
SetToSeq(S) ==
    IF S = {} THEN <<>>
    ELSE LET x == CHOOSE y \in S : TRUE IN <<x>> \o SetToSeq(S \ {x})

SubKind(command) == IF command \in {"subscribe", "unsubscribe"} THEN "sub" ELSE "psub"

\* the server answers one channel of a subscribe-family command
ServeChannel(st, cmd, args) ==
    LET key == <<SubKind(cmd.command), Head(args)>>
        subs == IF cmd.command \in {"subscribe", "psubscribe"}
                THEN st.srv_subs \cup {key} ELSE st.srv_subs \ {key}
    IN  [reply |-> Reply("array", cmd.seq, cmd.command, Head(args), Cardinality(subs)),
         st |-> [st EXCEPT !.srv_subs = subs,
                           !.srv_partial = Len(args) > 1,
                           !.srv_q = IF Len(args) > 1
                                     THEN <<[cmd EXCEPT !.args = Tail(args)]>> \o Tail(@)
                                     ELSE Tail(@)]]

Popped(st) == [st EXCEPT !.srv_q = Tail(@)]

ErrorReply(st, cmd, text) ==
    [reply |-> Reply("error", cmd.seq, text, "", 0), st |-> Popped(st)]

ValueReply(st, cmd, kind, n) ==
    [reply |-> Reply("value", cmd.seq, kind, "", n), st |-> Popped(st)]

\* every answer the server can give to the oldest command it has not answered
ServerAnswers(st) ==
    LET cmd == Head(st.srv_q)
        c == cmd.command
    IN  IF IsSubscribeFamily(c)
        THEN IF Len(cmd.args) > 0 THEN {ServeChannel(st, cmd, cmd.args)}
             ELSE IF c \in {"subscribe", "psubscribe"}
             THEN {ErrorReply(st, cmd, "ERR")}
             ELSE LET mine == {k[2] : k \in {x \in st.srv_subs : x[1] = SubKind(c)}}
                  IN  IF mine = {}
                      THEN {[reply |-> Reply("array", cmd.seq, c, "", Cardinality(st.srv_subs)),
                             st |-> Popped(st)]}
                      ELSE {ServeChannel(st, cmd, SetToSeq(mine))}
        ELSE IF st.srv_subs # {} /\ c # "quit"
        THEN {ErrorReply(st, cmd, "ERR")}
        ELSE IF c = "auth"
        THEN IF cmd.args = <<"pass">>
             THEN {ValueReply(st, cmd, "OK", 0), ErrorReply(st, cmd, "ERR"),
                   ErrorReply(st, cmd, "LOADING"), ErrorReply(st, cmd, "no password is set")}
             ELSE {ErrorReply(st, cmd, "ERR")}
        ELSE IF c = "info"
        THEN {ValueReply(st, cmd, "loaded", 0), ValueReply(st, cmd, "loading", 0),
              ValueReply(st, cmd, "loading", 2), ErrorReply(st, cmd, "ERR")}
        ELSE IF c = "monitor"
        THEN {[reply |-> Reply("value", cmd.seq, "OK", "", 0),
               st |-> [Popped(st) EXCEPT !.srv_monitor = TRUE]]}
        ELSE {ValueReply(st, cmd, "OK", 0), ErrorReply(st, cmd, "ERR")}

\* what the server can push: a message per subscription, a line of the monitor
ServerPushes(st) ==
    {Reply("array", 0, IF k[1] = "sub" THEN "message" ELSE "pmessage", k[2], 0) :
        k \in st.srv_subs}
    \cup (IF st.srv_monitor THEN {Reply("value", 0, "monitor line", "", 0)} ELSE {})

-----------------------------------------------------------------------------
(* The state as one record, and back *)

Cur ==
    [stream |-> stream, streams |-> streams, connected |-> connected, ready |-> ready,
     closing |-> closing, monitoring |-> monitoring, pub_sub_mode |-> pub_sub_mode,
     selected_db |-> selected_db, subscription_set |-> subscription_set,
     should_buffer |-> should_buffer, commands_sent |-> commands_sent,
     attempts |-> attempts, retry_delay |-> retry_delay,
     retry_totaltime |-> retry_totaltime, retry_timer |-> retry_timer,
     old_state |-> old_state, emitted_end |-> emitted_end,
     command_queue |-> command_queue, offline_queue |-> offline_queue,
     auth_pass |-> auth_pass, auth_callback |-> auth_callback,
     info_timer |-> info_timer, auth_timer |-> auth_timer,
     pending_timers |-> pending_timers, hung |-> hung, pushes |-> pushes,
     loadings |-> loadings,
     callback_count |-> callback_count, options |-> options, next_id |-> next_id,
     calls |-> calls, written |-> written,
     \* per handler: its trace, its input bp, and the locals of the calls
     trace |-> <<>>, bp |-> FALSE, wrote_ok |-> TRUE, ret |-> FALSE, thrown |-> FALSE]

Begin(bp) == [Cur EXCEPT !.bp = bp]

\* an exception that nothing catches leaves the handler where it was thrown
Commit(s0) ==
    LET s == IF s0.thrown THEN Emit(s0, "uncaught exception", "", 0) ELSE s0
    IN  /\ stream' = s.stream
        /\ streams' = s.streams
        /\ connected' = s.connected
        /\ ready' = s.ready
        /\ closing' = s.closing
        /\ monitoring' = s.monitoring
        /\ pub_sub_mode' = s.pub_sub_mode
        /\ selected_db' = s.selected_db
        /\ subscription_set' = s.subscription_set
        /\ should_buffer' = s.should_buffer
        /\ commands_sent' = s.commands_sent
        /\ attempts' = s.attempts
        /\ retry_delay' = s.retry_delay
        /\ retry_totaltime' = s.retry_totaltime
        /\ retry_timer' = s.retry_timer
        /\ old_state' = s.old_state
        /\ emitted_end' = s.emitted_end
        /\ command_queue' = s.command_queue
        /\ offline_queue' = s.offline_queue
        /\ auth_pass' = s.auth_pass
        /\ auth_callback' = s.auth_callback
        /\ info_timer' = s.info_timer
        /\ auth_timer' = s.auth_timer
        /\ pending_timers' = s.pending_timers
        /\ hung' = s.hung
        /\ pushes' = s.pushes
        /\ loadings' = s.loadings
        /\ callback_count' = s.callback_count
        /\ options' = s.options
        /\ next_id' = s.next_id
        /\ calls' = s.calls
        /\ written' = s.written
        /\ trace' = s.trace

-----------------------------------------------------------------------------
(* Construction *)

\* options as the user passes them; 0 (or FALSE) is "not given"
\* (hw, lw: the water marks; att: max_attempts; ct: connect_timeout; rmd:
\* retry_max_delay; oq: enable_offline_queue; nrc: no_ready_check; ap: auth_pass)
Options(hw, lw, att, ct, rmd, oq, nrc, ap) ==
    [command_queue_high_water |-> hw, command_queue_low_water |-> lw,
     max_attempts |-> att, connect_timeout |-> ct,
     retry_max_delay |-> rmd, enable_offline_queue |-> oq,
     no_ready_check |-> nrc, auth_pass |-> ap]

DefaultOptions == Options(0, 0, 0, 0, 0, TRUE, FALSE, FALSE)

\* createClient: net.createConnection, then new RedisClient(stream, options)
InitWith(opts) ==
    /\ options \in opts
    /\ stream = 1
    /\ streams = [i \in 1..MaxStreams |-> IF i = 1 THEN NewStream ELSE NoStream]
    /\ connected = FALSE
    /\ ready = FALSE
    /\ closing = FALSE
    /\ monitoring = FALSE
    /\ pub_sub_mode = FALSE
    /\ selected_db = 0
    /\ subscription_set = <<>>
    /\ should_buffer = FALSE
    /\ commands_sent = 0
    /\ attempts = 1
    /\ retry_delay = InitialRetryDelay
    /\ retry_totaltime = 0
    /\ retry_timer = 0
    /\ old_state = NullOldState
    /\ emitted_end = FALSE
    /\ command_queue = <<>>
    /\ offline_queue = <<>>
    /\ auth_pass = options.auth_pass
    /\ auth_callback = 0
    /\ info_timer = <<>>
    /\ auth_timer = 0
    /\ pending_timers = {}
    /\ hung = FALSE
    /\ pushes = 0
    /\ loadings = 0
    /\ callback_count = <<>>
    /\ next_id = 0
    /\ calls = [i \in 1..MaxCmds |-> <<>>]
    /\ written = <<>>
    /\ trace = <<>>

-----------------------------------------------------------------------------
(* The user's calls *)

Running == ~hung

\* client.<command>(args..., callback?)
UserSend(command, args, with_callback, bp) ==
    /\ Running
    /\ next_id < MaxCmds
    /\ LET id == next_id + 1
       IN  Commit(Return(send_command([Begin(bp) EXCEPT !.next_id = id], command, args,
                                      IF with_callback THEN UserCb(id) ELSE NoCallback(id),
                                      FALSE),
                         command, id, with_callback))

\* RedisClient.prototype.select
UserSelect(db, with_callback, bp) ==
    /\ Running
    /\ next_id < MaxCmds
    /\ LET id == next_id + 1
       IN  Commit(Return(send_command([Begin(bp) EXCEPT !.next_id = id], "select",
                                      <<DbArg(db)>>,
                                      CallbackRef(id, "select", with_callback, db), FALSE),
                         "select", id, with_callback))

\* RedisClient.prototype.end
UserEnd ==
    /\ Running
    /\ ~closing \/ streams[stream] # DeadStream
    /\ LET s == Call(Begin(FALSE), "end")
       IN  Commit([s EXCEPT !.streams[s.stream] = DeadStream,
                            !.pending_timers = @ \ {s.retry_timer},
                            !.retry_timer = 0,
                            !.connected = FALSE,
                            !.ready = FALSE,
                            !.closing = TRUE])

-----------------------------------------------------------------------------
(* The transport's events (install_stream_listeners) and the timers *)

Listening(sid) == streams[sid].listeners

StreamConnect(sid, bp) ==
    /\ Running
    /\ Listening(sid)
    /\ streams[sid].state = "connecting"
    /\ Commit(on_connect(Event([Begin(bp) EXCEPT !.streams[sid].state = "open"],
                                "connect", sid)))

IsLoading(reply) == reply.kind \in {"loading", "LOADING"}

\* a reply of the server arrives
StreamData(sid, answer, bp) ==
    /\ Running
    /\ Listening(sid)
    /\ streams[sid].state = "open"
    /\ IsLoading(answer.reply) => loadings < MaxLoading
    /\ Commit(on_data(Data([Begin(bp) EXCEPT !.streams[sid] = answer.st,
                                             !.loadings = IF IsLoading(answer.reply)
                                                          THEN @ + 1 ELSE @],
                            answer.reply),
                       answer.reply))

\* a push of the server arrives
StreamPush(sid, reply) ==
    /\ Running
    /\ Listening(sid)
    /\ streams[sid].state = "open"
    /\ pushes < MaxPush
    /\ reply \in ServerPushes(streams[sid])
    /\ Commit(on_data(Data([Begin(FALSE) EXCEPT !.pushes = @ + 1], reply), reply))

\* what is left of a transport after its end or error: its close event
ClosingStream == [DeadStream EXCEPT !.state = "closing", !.listeners = TRUE]

\* the transport stops being writable (its writing side is shut down) while
\* its events are still to come: stream.writable is false from here on
StreamFinish(sid) ==
    /\ Running
    /\ Listening(sid)
    /\ streams[sid].state = "open"
    /\ Commit([Begin(FALSE) EXCEPT !.streams[sid].state = "ending"])

StreamEnd(sid) ==
    /\ Running
    /\ Listening(sid)
    /\ streams[sid].state \in {"open", "ending"}
    /\ Commit(connection_gone(Event([Begin(FALSE) EXCEPT !.streams[sid] = ClosingStream],
                                     "end", sid),
                               "end"))

StreamError(sid) ==
    /\ Running
    /\ Listening(sid)
    /\ streams[sid].state \in {"connecting", "open", "ending"}
    /\ Commit(on_error(Event([Begin(FALSE) EXCEPT !.streams[sid] = ClosingStream],
                              "error", sid),
                        "connection failed"))

StreamClose(sid) ==
    /\ Running
    /\ Listening(sid)
    /\ streams[sid].state = "closing"
    /\ Commit(connection_gone(Event([Begin(FALSE) EXCEPT !.streams[sid] = DeadStream],
                                     "close", sid),
                               "close"))

\* lines 115-118
StreamDrain(sid) ==
    /\ Running
    /\ Listening(sid)
    /\ streams[sid].state = "open"
    /\ streams[sid].need_drain
    /\ Commit(Emit([Begin(FALSE) EXCEPT !.streams[sid].need_drain = FALSE,
                                        !.should_buffer = FALSE],
                   "drain", "", 0))

StreamsUsed == Cardinality({i \in 1..MaxStreams : streams[i].state # "none"})

\* lines 473-487: the retry timer fires
retry_timeout(s, timer) ==
    IF s.retry_totaltime + s.retry_delay >= ConnectTimeout(s)
    THEN \* this.emit: `this` is the timer, not the client
         [s EXCEPT !.pending_timers = @ \ {timer},
                   !.retry_totaltime = @ + s.retry_delay,
                   !.retry_timer = 0,
                   !.thrown = TRUE]
    ELSE [s EXCEPT !.pending_timers = @ \ {timer},
                   !.retry_totaltime = @ + s.retry_delay,
                   !.stream = StreamsUsed + 1,
                   !.streams[StreamsUsed + 1] = NewStream,
                   !.retry_timer = 0]

RetryTimeout(timer) ==
    /\ Running
    /\ timer \in pending_timers
    /\ StreamsUsed < MaxStreams \/ retry_totaltime + retry_delay >= ConnectTimeout(Cur)
    /\ Commit(retry_timeout(Event(Begin(FALSE), "retry timer", timer), timer))

\* the setTimeout of on_info_cmd fires
InfoTimeout(bp) ==
    /\ Running
    /\ Len(info_timer) > 0
    /\ Commit(ready_check([Begin(bp) EXCEPT !.info_timer = Tail(@)]))

\* the setTimeout of do_auth fires
AuthTimeout(bp) ==
    /\ Running
    /\ auth_timer > 0
    /\ Commit(do_auth([Begin(bp) EXCEPT !.auth_timer = @ - 1]))

-----------------------------------------------------------------------------
(* Specifications *)

Sids == 1..MaxStreams

\* the answers of the server to its oldest unanswered command whose kind the
\* scenario allows (an array reply is always allowed)
Answers(sid, kinds) ==
    IF Len(streams[sid].srv_q) > 0
    THEN {a \in ServerAnswers(streams[sid]) : a.reply.rt = "array" \/ a.reply.kind \in kinds}
    ELSE {}

(* Pipeline: one connection that stays up, plain commands *)

PlainCommands == {<<"get", <<"k">>>>}

\* command_queue_high_water and command_queue_low_water as the user may set them
SmallHighWater == 2
SmallLowWater == 1

WaterOptions == Options(SmallHighWater, SmallLowWater, 0, 0, 0, TRUE, FALSE, FALSE)

NextPipeline ==
    \/ \E c \in PlainCommands, cb \in BOOLEAN, bp \in BOOLEAN : UserSend(c[1], c[2], cb, bp)
    \/ \E bp \in BOOLEAN : StreamConnect(1, bp)
    \/ \E bp \in BOOLEAN : \E answer \in Answers(1, {"OK", "ERR", "loaded", "loading"}) :
            StreamData(1, answer, bp)
    \/ StreamDrain(1)
    \/ \E bp \in BOOLEAN : InfoTimeout(bp)

InitPipeline == InitWith({DefaultOptions, WaterOptions})

SpecPipeline == InitPipeline /\ [][NextPipeline]_vars

-----------------------------------------------------------------------------
(* Properties of the pipeline *)

Ids == 1..MaxCmds

\* the last handler was on_data
DataStep(tr) == tr # <<>> /\ tr[1].t = "data"

Emitted(tr, name) == \E i \in 1..Len(tr) : tr[i].t = "emit" /\ tr[i].name = name

\* the last handler was a user's call, and this is what it returned
Returned(tr, n) == tr # <<>> /\ tr[Len(tr)].t = "ret" /\ tr[Len(tr)].n = n

\* the user commands of a queue are in the order of their submission
InSubmissionOrder(queue) ==
    \A i, j \in 1..Len(queue) :
        (i < j /\ queue[i].id > 0 /\ queue[j].id > 0) => queue[i].id < queue[j].id

C1_Step ==
    /\ \A i \in Ids :
          /\ Len(calls'[i]) <= 1
          /\ \A k \in 1..Len(calls'[i]) : calls'[i][k].rid = calls'[i][k].seq
    /\ InSubmissionOrder(command_queue')
    /\ (DataStep(trace') /\ command_queue # <<>>) =>
          LET command_obj == Head(command_queue)
          IN  /\ trace'[1].id = command_obj.seq
              /\ \A i \in Ids :
                    calls'[i] = IF i = command_obj.id /\ command_obj.cb = "user"
                                THEN <<[err |-> IF trace'[1].name = "ERR" THEN "ERR" ELSE "",
                                        ch |-> "", rid |-> trace'[1].id,
                                        seq |-> command_obj.seq]>>
                                ELSE calls[i]

\* C1: on a ready connection outside pub/sub and monitor mode, each reply
\* that arrives is the reply to the oldest pending command and invokes that
\* command's callback, and no other; no callback is invoked twice; the
\* pending commands wait in submission order, so the callbacks fire in
\* submission order, the i-th with the i-th reply.
C1_PipelinePairing == [][C1_Step]_vars

\* two callbacks have fired, the second by the reply that has just arrived
C1_Witness ==
    /\ DataStep(trace)
    /\ calls[1] # <<>> /\ calls[2] # <<>>
    /\ calls[2][1].rid = trace[1].id
    /\ calls[1][1].rid < calls[2][1].rid

\* C7: on a ready, writable connection outside pub/sub mode, a send_command
\* call that makes the pending queue reach command_queue_high_water sets
\* should_buffer and returns false.
C7_HighWater ==
    [][(/\ ready /\ Writable(Cur)
        /\ Returned(trace', 0) \/ Returned(trace', 1)
        /\ Len(command_queue') = Len(command_queue) + 1
        /\ Len(command_queue') >= HighWater(Cur))
       => should_buffer' /\ Returned(trace', 0)]_vars

\* the call returned false because of the queue's length alone: the transport
\* took the write, and should_buffer was not set before
C7_Witness ==
    /\ Returned(trace, 0)
    /\ ready /\ should_buffer
    /\ Len(command_queue) = SmallHighWater
    /\ HighWater(Cur) = SmallHighWater
    /\ ~streams[stream].need_drain

\* C6 as stated: a drain event is emitted exactly in the steps in which
\* should_buffer goes from true to false
C6_DrainExactlyOnTransition ==
    [][Emitted(trace', "drain") <=> (should_buffer /\ ~should_buffer')]_vars

\* C6: every step in which should_buffer goes from true to false emits drain
C6_TransitionEmitsDrain ==
    [][(should_buffer /\ ~should_buffer') => Emitted(trace', "drain")]_vars

\* should_buffer has just been cleared by a reply that left the pending queue
\* at the low-water mark, the transport still waiting for its drain
C6_Witness ==
    /\ DataStep(trace)
    /\ Emitted(trace, "drain")
    /\ ~should_buffer
    /\ options = WaterOptions
    /\ Len(command_queue) = SmallLowWater
    /\ streams[stream].need_drain

-----------------------------------------------------------------------------
(* Pub/sub: one connection that stays up, subscriptions and pushes *)

PubSubCommands ==
    {<<"subscribe", <<"a">>>>, <<"subscribe", <<"a", "b">>>>, <<"psubscribe", <<"a">>>>,
     <<"unsubscribe", <<"a">>>>, <<"unsubscribe", <<>>>>, <<"get", <<"k">>>>}

NextPubSub ==
    \/ \E c \in PubSubCommands, cb \in BOOLEAN : UserSend(c[1], c[2], cb, FALSE)
    \/ StreamConnect(1, FALSE)
    \/ \E answer \in Answers(1, {"OK", "ERR", "loaded"}) : StreamData(1, answer, FALSE)
    \/ \E reply \in ServerPushes(streams[1]) : StreamPush(1, reply)

SpecPubSub == InitWith({DefaultOptions}) /\ [][NextPubSub]_vars

PushStep(tr) == DataStep(tr) /\ tr[1].name \in {"message", "pmessage"}

\* C2: a message or pmessage push that arrives while pub_sub_mode is true
\* leaves the pending queue as it was and invokes no command's callback.
C2_PushKeepsQueue ==
    [][(pub_sub_mode /\ PushStep(trace'))
       => command_queue' = command_queue /\ calls' = calls]_vars

\* a push has just been dispatched while a command with a callback was pending
C2_Witness ==
    /\ PushStep(trace)
    /\ pub_sub_mode
    /\ Emitted(trace, "message") \/ Emitted(trace, "pmessage")
    /\ \E i \in 1..Len(command_queue) : command_queue[i].cb = "user"

\* the commands written to a transport that the server has not begun to answer
Unanswered(st) == IF st.srv_partial THEN Tail(st.srv_q) ELSE st.srv_q

Seqs(queue) == [i \in 1..Len(queue) |-> queue[i].seq]

\* C10 as stated: the pending queue holds exactly the commands written to
\* the current transport that have had no reply, in the order written; while
\* the server answers one command with several replies the pending queue may
\* or may not still hold that command.
C10_PendingIsUnanswered ==
    \/ Seqs(command_queue) = Seqs(Unanswered(streams[stream]))
    \/ Seqs(command_queue) = Seqs(streams[stream].srv_q)

-----------------------------------------------------------------------------
(* Reconnection: the connection is lost and made again, plain commands and *)
(* select                                                                  *)

\* user submissions in one behaviour of this scenario
MaxReconnectCmds == 2

NextReconnect ==
    \/ /\ next_id < MaxReconnectCmds
       /\ \E c \in PlainCommands, cb \in BOOLEAN : UserSend(c[1], c[2], cb, FALSE)
    \/ /\ next_id < MaxReconnectCmds
       /\ \E cb \in BOOLEAN : UserSelect(1, cb, FALSE)
    \/ \E sid \in Sids : StreamConnect(sid, FALSE)
    \/ \E sid \in Sids : \E answer \in Answers(sid, {"OK", "loaded"}) :
            StreamData(sid, answer, FALSE)
    \/ \E sid \in Sids : StreamEnd(sid)
    \/ \E sid \in Sids : StreamError(sid)
    \/ \E sid \in Sids : StreamClose(sid)
    \/ \E timer \in pending_timers : RetryTimeout(timer)

SpecReconnect == InitWith({DefaultOptions}) /\ [][NextReconnect]_vars

\* a transport's end, close or error event has just been handled
GoneStep(tr) == tr # <<>> /\ tr[1].t = "event" /\ tr[1].name \in {"end", "close", "error"}

\* the command has a callback of the user's
HasUserCallback(command_obj) ==
    command_obj.cb = "user" \/ (command_obj.cb = "select" /\ command_obj.ucb)

\* this step has emptied both queues and has invoked, with an error, the
\* callback of every command that was in them: the only invocation it ever had
C3_FlushedAll ==
    /\ offline_queue' = <<>>
    /\ command_queue' = <<>>
    /\ \A i \in Ids :
          IF \E k \in 1..Len(offline_queue \o command_queue) :
                 /\ (offline_queue \o command_queue)[k].id = i
                 /\ HasUserCallback((offline_queue \o command_queue)[k])
          THEN Len(calls'[i]) = 1 /\ calls'[i][1].err # ""
          ELSE calls'[i] = calls[i]

\* C3 as stated: whenever a transport's close, end or error event has been
\* handled, every command that was in the offline or the pending queue has had
\* exactly one error callback (if it has a callback), and both queues are empty.
C3_EveryLossFlushes == [][GoneStep(trace') => C3_FlushedAll]_vars

\* connection_gone goes past its guard (no retry scheduled), or on_error past its own
C3_Passes ==
    IF trace'[1].name = "error" THEN ~closing ELSE retry_timer = 0

\* C3: a connection_gone that finds no retry scheduled (and an on_error outside
\* closing) invokes the callback of every queued command that has one exactly
\* once, with an error, and empties both queues; a close or end event that
\* finds a retry scheduled leaves the queues and the callbacks alone.
C3_LossFlushesUnlessRetrying ==
    [][GoneStep(trace') =>
         IF C3_Passes THEN C3_FlushedAll
         ELSE /\ offline_queue' = offline_queue
              /\ command_queue' = command_queue
              /\ calls' = calls]_vars

\* a loss has just failed two commands, each through its callback
C3_Witness ==
    /\ GoneStep(trace)
    /\ retry_timer # 0
    /\ offline_queue = <<>> /\ command_queue = <<>>
    /\ \E i, j \in 1..Len(trace) :
          /\ i < j
          /\ trace[i].t = "cb" /\ trace[j].t = "cb"
          /\ trace[i].id # trace[j].id
          /\ calls[trace[i].id][1].err = "connection gone"
          /\ calls[trace[j].id][1].err = "connection gone"

Writes(tr) == SelectSeq(tr, LAMBDA e : e.t = "write")

\* a database is saved for the next connection
SavedDb == old_state.set /\ old_state.selected_db # 0

\* C4 as stated: with a saved selected_db, the first command written on the
\* new transport is the select of that database.
C4_SelectFirstOnTransport ==
    [][(/\ SavedDb
        /\ streams[stream'].srv_n = 0
        /\ streams'[stream'].srv_n > 0)
       => /\ Writes(trace')[1].name = "select"
          /\ Writes(trace')[1].ch = DbArg(old_state.selected_db)]_vars

\* C4: with a saved selected_db, on_ready writes the select of that database
\* on the new transport before it writes anything else, so before every
\* offline-queued command, and the select does not enter the offline queue.
C4_SelectFirstOfReady ==
    [][(SavedDb /\ ~ready /\ ready')
       => /\ Writes(trace') # <<>>
          /\ Writes(trace')[1].name = "select"
          /\ Writes(trace')[1].ch = DbArg(old_state.selected_db)
          /\ Writes(trace')[1].id = 0
          /\ Writes(trace')[1].n = stream'
          /\ selected_db' = old_state.selected_db
          /\ \A k \in 1..Len(offline_queue') :
                ~(offline_queue'[k].command = "select" /\ offline_queue'[k].id = 0)]_vars

\* the select of the saved database has just been written on the second
\* transport, and a command that waited in the offline queue after it
C4_Witness ==
    /\ ready /\ stream = 2 /\ selected_db = 1
    /\ Len(Writes(trace)) >= 2
    /\ Writes(trace)[1].name = "select" /\ Writes(trace)[1].id = 0
    /\ Writes(trace)[2].name = "get" /\ Writes(trace)[2].id > 0

-----------------------------------------------------------------------------
(* Backoff: the connection is lost again and again, no commands *)

\* retry_max_delay as the user may set it
SmallRetryMaxDelay == 500

CapOptions == Options(0, 0, 0, 0, SmallRetryMaxDelay, TRUE, FALSE, FALSE)

NextBackoff ==
    \/ \E sid \in Sids : StreamConnect(sid, FALSE)
    \/ \E sid \in Sids : \E answer \in Answers(sid, {"loaded"}) : StreamData(sid, answer, FALSE)
    \/ \E sid \in Sids : StreamEnd(sid)
    \/ \E sid \in Sids : StreamError(sid)
    \/ \E sid \in Sids : StreamClose(sid)
    \/ \E timer \in pending_timers : RetryTimeout(timer)

SpecBackoff == InitWith({DefaultOptions, CapOptions}) /\ [][NextBackoff]_vars

RECURSIVE Pow(_, _)
Pow(b, e) == IF e = 0 THEN 1 ELSE b * Pow(b, e - 1)

\* min(200 * 1.7^(k-1), retry_max_delay), rounded down
ClaimedDelay(k) ==
    LET d == (InitialRetryDelay * Pow(BackoffNum, k - 1)) \div Pow(BackoffDen, k - 1)
    IN  IF options.retry_max_delay # 0 /\ d > options.retry_max_delay
        THEN options.retry_max_delay ELSE d

\* C8 as stated: the reconnecting event of the k-th consecutive attempt
\* (attempt k + 1) announces the delay min(200 * 1.7^(k-1), retry_max_delay);
\* the first after a lost connection announces 200 with attempt 2.
C8_BackoffDelay ==
    \A i \in 1..Len(trace) :
        (trace[i].t = "emit" /\ trace[i].name = "reconnecting")
            => trace[i].n = ClaimedDelay(trace[i].id - 1)

-----------------------------------------------------------------------------
(* Resubscription: the connection is lost and made again in pub/sub mode *)

ResubscribeCommands == {<<"subscribe", <<"a">>>>, <<"unsubscribe", <<>>>>}

NextResubscribe ==
    \/ \E c \in ResubscribeCommands : UserSend(c[1], c[2], FALSE, FALSE)
    \/ \E sid \in Sids : StreamConnect(sid, FALSE)
    \/ \E sid \in Sids : \E answer \in Answers(sid, {"loaded"}) :
            StreamData(sid, answer, FALSE)
    \/ \E sid \in Sids : StreamEnd(sid)
    \/ \E sid \in Sids : StreamClose(sid)
    \/ \E timer \in pending_timers : RetryTimeout(timer)

SpecResubscribe == InitWith({DefaultOptions}) /\ [][NextResubscribe]_vars

\* C9 as stated: the user's commands are written to the transport in the
\* order in which send_command was called for them.
C9_WritesInCallOrder ==
    \A i, j \in 1..Len(written) : i < j => written[i] < written[j]

\* the ready event as the closure of on_ready emits it, after the last of
\* the callbacks of its re-issued subscriptions
ReadyOfClosure(e) == e.t = "emit" /\ e.name = "ready" /\ e.n > 0

\* C5 as stated: on_ready after a reconnection in pub/sub mode re-issues a
\* subscribe or psubscribe for every entry of subscription_set; ready is
\* emitted only by the arrival of a confirmation, when the confirmation of
\* every re-issued command has arrived, and once.
C5_ReadyAfterConfirmations ==
    [][/\ (old_state.set /\ old_state.pub_sub_mode /\ ~ready /\ ready')
          => \A k \in 1..Len(subscription_set') :
                \E i \in 1..Len(trace') :
                    /\ trace'[i].t = "write" /\ trace'[i].id = 0
                    /\ trace'[i].name = subscription_set'[k][1] \o "scribe"
                    /\ trace'[i].ch = subscription_set'[k][2]
       /\ \A i \in 1..Len(trace') :
             ReadyOfClosure(trace'[i])
                => /\ DataStep(trace')
                   /\ trace'[1].name \in {"subscribe", "psubscribe"}
                   /\ \A k \in 1..Len(command_queue') :
                         ~(command_queue'[k].cb = "resub"
                           /\ command_queue'[k].gen = trace'[i].n)
                   /\ \A j \in 1..Len(trace') : ReadyOfClosure(trace'[j]) => j = i]_vars

-----------------------------------------------------------------------------
(* Reply pairing in every mode *)

\* C11 as stated: every reply the parser hands over is either a push
\* (message, pmessage) that leaves the pending queue and every callback alone,
\* or the reply to the command at the head of the pending queue; no reply is
\* taken for the reply to another command, none is popped from an empty queue.
C11_ReplyPairsWithHead ==
    [][DataStep(trace') =>
         IF trace'[1].id = 0
         THEN command_queue' = command_queue /\ calls' = calls
         ELSE /\ command_queue # <<>>
              /\ Head(command_queue).seq = trace'[1].id]_vars

-----------------------------------------------------------------------------
(* The pub/sub mode and the subscription set *)

\* a subscribe-family command is written and the server has not confirmed it
\* in full, or it is still in the pending queue
AwaitingConfirmation ==
    \/ \E k \in 1..Len(streams[stream].srv_q) :
          IsSubscribeFamily(streams[stream].srv_q[k].command)
    \/ \E k \in 1..Len(command_queue) : IsSubscribeFamily(command_queue[k].command)

\* C12 as stated: whenever no subscribe-family command awaits its
\* confirmation, pub_sub_mode is true exactly if subscription_set is non-empty.
C12_ModeIffSubscribed ==
    ~AwaitingConfirmation => (pub_sub_mode <=> subscription_set # <<>>)

-----------------------------------------------------------------------------
(* Restoration: the connection is lost and made again with a database      *)
(* selected, the monitor on, or a subscription                             *)

RestoreCommands ==
    {<<"get", <<"k">>>>, <<"monitor", <<>>>>, <<"subscribe", <<"a">>>>, <<"unsubscribe", <<>>>>}

NextRestore ==
    \/ /\ next_id < MaxReconnectCmds
       /\ \E c \in RestoreCommands : UserSend(c[1], c[2], FALSE, FALSE)
    \/ /\ next_id < MaxReconnectCmds
       /\ UserSelect(1, FALSE, FALSE)
    \/ \E sid \in Sids : StreamConnect(sid, FALSE)
    \/ \E sid \in Sids : \E answer \in Answers(sid, {"OK", "loaded"}) :
            StreamData(sid, answer, FALSE)
    \/ \E sid \in Sids : StreamEnd(sid)
    \/ \E sid \in Sids : StreamError(sid)
    \/ \E sid \in Sids : StreamClose(sid)
    \/ \E timer \in pending_timers : RetryTimeout(timer)

SpecRestore == InitWith({DefaultOptions}) /\ [][NextRestore]_vars

\* the write at position i of the handler's writes re-issues a modal command
RestoreWrite(w, i, command, arg) ==
    w[i].id = 0 /\ w[i].name = command /\ w[i].ch = arg

\* this step is the on_ready that restores the snapshot: the live fields take
\* the saved values, the modal commands are written again, and every one of
\* them before the first command of the user's
C13_Restored ==
    LET w == Writes(trace')
    IN  /\ ready' /\ ~old_state'.set
        /\ selected_db' = old_state.selected_db
        /\ old_state.monitoring => monitoring'
        /\ old_state.pub_sub_mode => pub_sub_mode'
        /\ old_state.selected_db # 0 =>
              w # <<>> /\ RestoreWrite(w, 1, "select", DbArg(old_state.selected_db))
        /\ (old_state.monitoring /\ ~old_state.pub_sub_mode) =>
              \E i \in 1..Len(w) : RestoreWrite(w, i, "monitor", "")
        /\ \A k \in 1..Len(subscription_set) :
              \E i \in 1..Len(w) :
                  RestoreWrite(w, i, subscription_set[k][1] \o "scribe",
                               subscription_set[k][2])
        /\ \A i, j \in 1..Len(w) : (w[i].id = 0 /\ w[j].id > 0) => i < j

\* C13 as stated: from the connection_gone that takes the snapshot to the
\* on_ready that restores it, whatever happens in between (failed attempts,
\* further losses, submissions), the snapshot and subscription_set keep
\* their values and no command of the user's is written; on_ready restores
\* selected_db and monitoring, writes select, monitor and a subscription for
\* every entry of subscription_set, and only then the commands of the user's.
C13_ModalStateRestored ==
    [][old_state.set =>
         \/ /\ old_state' = old_state
            /\ subscription_set' = subscription_set
            /\ \A i \in 1..Len(trace') : ~(trace'[i].t = "write" /\ trace'[i].id > 0)
         \/ C13_Restored]_vars

-----------------------------------------------------------------------------
(* The end event *)

\* how often the handler emitted the event
EmitCount(tr, name) ==
    Cardinality({i \in 1..Len(tr) : tr[i].t = "emit" /\ tr[i].name = name})

\* the last handler was on_connect
ConnectStep(tr) == tr # <<>> /\ tr[1].t = "event" /\ tr[1].name = "connect"

-----------------------------------------------------------------------------
(* Where the error of a command goes *)

\* the handler emitted an error event for the user's call id
ErrorEventFor(tr, id) ==
    \E i \in 1..Len(tr) : tr[i].t = "emit" /\ tr[i].name = "error" /\ tr[i].n = id

\* the handler invoked the callback of the user's call id with an error
ErrorCallbackFor(tr, id) ==
    \E i \in 1..Len(tr) : tr[i].t = "cb" /\ tr[i].id = id /\ tr[i].name # ""

\* the last handler was a call of the user's
CallStep(tr) == tr # <<>> /\ tr[Len(tr)].t = "ret"

\* a call of the user's that fails at once (validation, subscriber mode, not
\* writable) fails through its callback if it has one, and then once and
\* without an error event, and through an error event if it has none
C15_Rejection ==
    CallStep(trace') =>
        LET id == trace'[Len(trace')].id
        IN  (ErrorEventFor(trace', id) \/ ErrorCallbackFor(trace', id)) =>
                IF trace'[Len(trace')].ch = "callback"
                THEN /\ ~ErrorEventFor(trace', id)
                     /\ Len(calls'[id]) = 1 /\ calls'[id][1].err # ""
                ELSE /\ ErrorEventFor(trace', id)
                     /\ calls'[id] = <<>>

\* an error reply of the server to a command of the user's goes to the
\* callback of that command if it has one, and to an error event if not
C15_ErrorReply ==
    (DataStep(trace') /\ trace'[1].name = "ERR" /\ command_queue # <<>>
        /\ Head(command_queue).id > 0) =>
        LET command_obj == Head(command_queue)
        IN  IF HasUserCallback(command_obj)
            THEN /\ Len(calls'[command_obj.id]) = Len(calls[command_obj.id]) + 1
                 /\ ErrorCallbackFor(trace', command_obj.id)
                 /\ ~Emitted(trace', "error")
            ELSE /\ Emitted(trace', "error")
                 /\ calls' = calls

\* C15 as stated: the error of a submitted command is delivered to the
\* command's callback, exactly once, if the command has a callback, and is
\* emitted as an error event if and only if it has none.
C15_ErrorToCallbackOrEvent == [][C15_Rejection /\ C15_ErrorReply]_vars

-----------------------------------------------------------------------------
(* Subscriber mode: one connection that stays up, a subscription, and the  *)
(* commands that are not of the subscribe family                           *)

SubscriberCommands ==
    {<<"subscribe", <<"a">>>>, <<"get", <<"k">>>>, <<"monitor", <<>>>>, <<"quit", <<>>>>}

NextSubscriber ==
    \/ \E c \in SubscriberCommands, cb \in BOOLEAN : UserSend(c[1], c[2], cb, FALSE)
    \/ StreamConnect(1, FALSE)
    \/ \E answer \in Answers(1, {"OK", "ERR", "loaded"}) : StreamData(1, answer, FALSE)

SpecSubscriber == InitWith({DefaultOptions}) /\ [][NextSubscriber]_vars

\* the call of the user's that has just returned was made on a ready,
\* writable connection in pub/sub mode, with a command outside exempt
RejectedCall(exempt) ==
    /\ CallStep(trace')
    /\ ready /\ Writable(Cur) /\ pub_sub_mode
    /\ trace'[Len(trace')].name \notin exempt

\* the call was rejected with an error and has left no trace in the pending
\* queue, on the transport or in commands_sent
C16_Rejected ==
    /\ ErrorEventFor(trace', trace'[Len(trace')].id)
           \/ ErrorCallbackFor(trace', trace'[Len(trace')].id)
    /\ command_queue' = command_queue
    /\ offline_queue' = offline_queue
    /\ Writes(trace') = <<>>
    /\ streams' = streams
    /\ commands_sent' = commands_sent

SubscribeFamily == {"subscribe", "psubscribe", "unsubscribe", "punsubscribe"}

-----------------------------------------------------------------------------
(* Giving up: the connection is lost again and again with max_attempts set *)

\* max_attempts as the user may set it
SmallMaxAttempts == 2

AttemptsOptions == Options(0, 0, SmallMaxAttempts, 0, 0, TRUE, FALSE, FALSE)

SpecAttempts == InitWith({AttemptsOptions}) /\ [][NextBackoff]_vars

\* how often the handler emitted the terminal error of max_attempts
TerminalErrors(tr) ==
    Cardinality({i \in 1..Len(tr) :
                    /\ tr[i].t = "emit" /\ tr[i].name = "error"
                    /\ tr[i].ch = "maximum connection attempts exceeded"})

\* connection_gone goes past its guards with the attempt count at max_attempts
AttemptsExhausted ==
    /\ GoneStep(trace')
    /\ options.max_attempts # 0 /\ attempts >= options.max_attempts
    /\ retry_timer = 0 /\ ~closing

\* the close event of the current transport: the same loss has been reported
\* by the end or error event of that transport, with the same attempt count
SameLossAgain == trace'[1].name = "close" /\ trace'[1].id = stream

\* C17 as stated: with the attempt count at max_attempts a connection loss
\* emits no reconnecting event and schedules no reconstruction; the terminal
\* error is emitted by the first transport event that reports the loss and not
\* again by the close event that reports the same loss.
C17_TerminalErrorOnce ==
    [][AttemptsExhausted =>
         /\ ~Emitted(trace', "reconnecting")
         /\ pending_timers' = pending_timers
         /\ retry_timer' = 0
         /\ TerminalErrors(trace') = IF SameLossAgain THEN 0 ELSE 1]_vars

-----------------------------------------------------------------------------
(* Shutdown: quit and end(), with the connection lost before and after     *)

ClosingCommands == {<<"get", <<"k">>>>, <<"quit", <<>>>>}

NextClosing ==
    \/ /\ next_id < MaxReconnectCmds
       /\ \E c \in ClosingCommands : UserSend(c[1], c[2], FALSE, FALSE)
    \/ UserEnd
    \/ \E sid \in Sids : StreamConnect(sid, FALSE)
    \/ \E sid \in Sids : \E answer \in Answers(sid, {"OK", "loaded"}) :
            StreamData(sid, answer, FALSE)
    \/ \E sid \in Sids : StreamEnd(sid)
    \/ \E sid \in Sids : StreamError(sid)
    \/ \E sid \in Sids : StreamClose(sid)
    \/ \E timer \in pending_timers : RetryTimeout(timer)

SpecClosing == InitWith({DefaultOptions}) /\ [][NextClosing]_vars

\* the last handler was end()
EndCall(tr) == tr # <<>> /\ tr[1].t = "call" /\ tr[1].name = "end"

\* C18 as stated: closing, once set, stays set; with closing set no
\* connection loss emits reconnecting or schedules a timer; end() sets
\* closing and leaves no retry timer scheduled, so that none fires after it.
C18_ClosingStopsRetry ==
    [][/\ closing => closing'
       /\ (closing /\ GoneStep(trace')) =>
             (~Emitted(trace', "reconnecting") /\ pending_timers' = pending_timers)
       /\ EndCall(trace') =>
             (closing' /\ retry_timer' = 0 /\ pending_timers' = {})]_vars

-----------------------------------------------------------------------------
(* Offline queueing: commands submitted before the connection is ready and *)
(* while the transport is not writable                                     *)

OfflineCommands == {<<"get", <<"k">>>>, <<"set", <<"k", "v">>>>}

NoQueueOptions == Options(0, 0, 0, 0, 0, FALSE, FALSE, FALSE)

NextOffline ==
    \/ \E c \in OfflineCommands, cb \in BOOLEAN : UserSend(c[1], c[2], cb, FALSE)
    \/ StreamConnect(1, FALSE)
    \/ \E answer \in Answers(1, {"OK", "loaded"}) : StreamData(1, answer, FALSE)
    \/ StreamFinish(1)
    \/ StreamEnd(1)

SpecOffline == InitWith({DefaultOptions, NoQueueOptions}) /\ [][NextOffline]_vars

\* the queue has grown by one entry, the command of the call that has returned
AppendedCall(queue, queue1, tr) ==
    /\ Len(queue1) = Len(queue) + 1
    /\ SubSeq(queue1, 1, Len(queue)) = queue
    /\ queue1[Len(queue1)].id = tr[Len(tr)].id
    /\ queue1[Len(queue1)].command = tr[Len(tr)].name

\* C19: a command (one that passes the validation of set and setex) that is
\* submitted with offline queueing enabled while the client is not ready, or
\* while the transport is not writable, is appended to the offline queue;
\* should_buffer is true afterwards, the call returns false, and the pending
\* queue, commands_sent, the transport and the callbacks are left alone.
C19_QueuedOffline ==
    [][(/\ CallStep(trace')
        /\ options.enable_offline_queue
        /\ ~ready \/ ~Writable(Cur))
       => /\ AppendedCall(offline_queue, offline_queue', trace')
          /\ should_buffer'
          /\ Returned(trace', 0)
          /\ command_queue' = command_queue
          /\ commands_sent' = commands_sent
          /\ streams' = streams
          /\ Writes(trace') = <<>>
          /\ calls' = calls]_vars

\* a command has just been queued offline on a ready client whose transport
\* is no longer writable, behind nothing: should_buffer was false before
C19_Witness ==
    /\ CallStep(trace)
    /\ ready /\ ~Writable(Cur)
    /\ Len(offline_queue) = 1
    /\ should_buffer
    /\ Returned(trace, 0)

-----------------------------------------------------------------------------
(* The offline queue when the connection becomes ready *)

\* the ids of the user's commands among the first n entries of the trace
\* that are writes, in the order written
UserWritesBefore(tr, n) ==
    LET w == SelectSeq(SubSeq(tr, 1, n), LAMBDA e : e.t = "write" /\ e.id > 0)
    IN  [k \in 1..Len(w) |-> w[k].id]

QueueIds(queue) == [k \in 1..Len(queue) |-> queue[k].id]

\* C20 as stated: when on_ready emits ready outside pub/sub mode, the
\* commands that were in the offline queue have been written, all of them and
\* in the order of their submission, before the event, and the offline queue
\* is empty.
C20_OfflineSentBeforeReady ==
    [][\A r \in 1..Len(trace') :
          (/\ trace'[r].t = "emit" /\ trace'[r].name = "ready" /\ trace'[r].n = 0
           /\ ~pub_sub_mode')
          => /\ offline_queue' = <<>>
             /\ UserWritesBefore(trace', r) = QueueIds(offline_queue)]_vars

-----------------------------------------------------------------------------
(* Authentication: auth_pass is configured; the connection is lost and     *)
(* made again                                                              *)

AuthOptions == Options(0, 0, 0, 0, 0, TRUE, FALSE, TRUE)
AuthNoCheckOptions == Options(0, 0, 0, 0, 0, TRUE, TRUE, TRUE)

NextAuth ==
    \/ /\ next_id < MaxReconnectCmds
       /\ \E c \in PlainCommands, cb \in BOOLEAN : UserSend(c[1], c[2], cb, FALSE)
    \/ /\ next_id < MaxReconnectCmds
       /\ UserSelect(1, FALSE, FALSE)
    \/ \E sid \in Sids : StreamConnect(sid, FALSE)
    \/ \E sid \in Sids :
          \E answer \in Answers(sid, {"OK", "ERR", "LOADING", "no password is set", "loaded"}) :
             StreamData(sid, answer, FALSE)
    \/ \E sid \in Sids : StreamEnd(sid)
    \/ \E timer \in pending_timers : RetryTimeout(timer)
    \/ AuthTimeout(FALSE)

SpecAuth == InitWith({AuthOptions, AuthNoCheckOptions}) /\ [][NextAuth]_vars

\* the reply that has just arrived answers the AUTH of do_auth
AuthReplyStep(kind) ==
    /\ DataStep(trace') /\ trace'[1].name = kind
    /\ command_queue # <<>> /\ Head(command_queue).cb = "auth"

\* C21: with auth_pass configured, the first command written on a transport
\* is AUTH, and the handler of the transport's connect writes AUTH and
\* nothing else, so that INFO, SELECT and the user's commands come after it;
\* an error reply to it that says 'no password is set' is no error: connect
\* is emitted, no error event, and the client goes on to the ready check (it
\* writes INFO) or, with no_ready_check, to on_ready.
C21_AuthFirst ==
    [][/\ (auth_pass /\ Writes(trace') # <<>> /\ streams[Writes(trace')[1].n].srv_n = 0) =>
             Writes(trace')[1].name = "auth"
       /\ (ConnectStep(trace') /\ auth_pass) =>
             /\ Len(Writes(trace')) = 1
             /\ Writes(trace')[1].name = "auth"
             /\ Writes(trace')[1].n = trace'[1].id
             /\ ~ready'
       /\ AuthReplyStep("no password is set") =>
             /\ Emitted(trace', "connect")
             /\ ~Emitted(trace', "error")
             /\ connected'
             /\ IF options.no_ready_check THEN ready'
                ELSE Writes(trace') # <<>> /\ Writes(trace')[1].name = "info"]_vars

\* on the second transport the server has just answered AUTH with 'no
\* password is set', and the client has gone on to the ready check
C21_Witness ==
    /\ DataStep(trace) /\ trace[1].name = "no password is set"
    /\ stream = 2
    /\ Emitted(trace, "connect")
    /\ Writes(trace) # <<>> /\ Writes(trace)[1].name = "info"

-----------------------------------------------------------------------------
(* The pending queue: how a command leaves it                              *)

\* the scheduler runs every handler that is due: a behaviour ends only where
\* no call, event or timer is left
NextPending ==
    \/ /\ next_id < MaxReconnectCmds
       /\ \E c \in PlainCommands, cb \in BOOLEAN : UserSend(c[1], c[2], cb, FALSE)
    \/ UserEnd
    \/ \E sid \in Sids : StreamConnect(sid, FALSE)
    \/ \E sid \in Sids : \E answer \in Answers(sid, {"OK", "loaded"}) :
            StreamData(sid, answer, FALSE)
    \/ \E sid \in Sids : StreamEnd(sid)
    \/ \E timer \in pending_timers : RetryTimeout(timer)

SpecPending == InitWith({DefaultOptions}) /\ [][NextPending]_vars /\ WF_vars(NextPending)

\* the command is no longer in the pending queue after the step
LeftPending(command_obj) ==
    \A k \in 1..Len(command_queue') : command_queue'[k].seq # command_obj.seq

\* the user's command id is in the pending queue
Pending(id) == \E k \in 1..Len(command_queue) : command_queue[k].id = id

\* C22 as stated: a user's command leaves the pending queue only in a step
\* that dispatches a reply (a reply has arrived and return_reply or
\* return_error has shifted the queue) or that fails it with an error on its
\* callback (a flush of the queues, which passes by a command that has no
\* callback), and every command in the pending queue leaves it in the end:
\* transport connect, end() and reconnection neither take one away otherwise
\* nor leave one there for ever.
C22_PendingDispatched ==
    /\ [][\A k \in 1..Len(command_queue) :
             (command_queue[k].id > 0 /\ LeftPending(command_queue[k])) =>
                 \/ DataStep(trace')
                 \/ ErrorCallbackFor(trace', command_queue[k].id)
                 \/ GoneStep(trace') /\ ~HasUserCallback(command_queue[k])]_vars
    /\ \A id \in Ids : Pending(id) ~> ~Pending(id)

-----------------------------------------------------------------------------
(* The ready check while the server is loading                             *)

\* the reply that has just arrived answers the INFO of ready_check
InfoReplyStep(kind) ==
    /\ DataStep(trace') /\ trace'[1].name = kind
    /\ command_queue # <<>> /\ Head(command_queue).cb = "info"

\* min(loading_eta_seconds * 1000, 1000)
ClaimedRetryTime(eta) == IF eta * 1000 < 1000 THEN eta * 1000 ELSE 1000

\* C23: with the ready check enabled, an INFO reply that reports loading
\* neither sets ready nor emits ready and writes nothing; it sets a timer of
\* min(loading_eta_seconds * 1000, 1000) ms, and when the timer fires INFO is
\* written again; ready becomes true only in the handling of an INFO reply
\* that does not report loading.
C23_LoadingDefersReady ==
    [][/\ InfoReplyStep("loading") =>
             /\ ~ready' /\ ~Emitted(trace', "ready")
             /\ Writes(trace') = <<>>
             /\ info_timer' = Append(info_timer, ClaimedRetryTime(trace'[1].n))
       /\ (info_timer # <<>> /\ info_timer' = Tail(info_timer)) =>
             /\ Len(Writes(trace')) = 1 /\ Writes(trace')[1].name = "info"
             /\ ~ready'
       /\ (~options.no_ready_check /\ ~ready /\ ready') => InfoReplyStep("loaded")
       /\ (~options.no_ready_check /\ Emitted(trace', "ready")) => InfoReplyStep("loaded")]_vars

\* INFO reported loading, was asked again, and its second reply has made the
\* client ready
C23_Witness ==
    /\ DataStep(trace) /\ trace[1].name = "loaded"
    /\ loadings = 1 /\ info_timer = <<>>
    /\ ready /\ Emitted(trace, "ready")

-----------------------------------------------------------------------------
(* The callbacks of the subscribe-family commands                          *)

\* the step has invoked, without an error, the callback of the pending
\* subscribe-family command
ConfirmedToCallback(command_obj) ==
    /\ command_obj.cb = "user" /\ IsSubscribeFamily(command_obj.command)
    /\ Len(calls'[command_obj.id]) > Len(calls[command_obj.id])
    /\ calls'[command_obj.id][Len(calls'[command_obj.id])].err = ""

\* C24 as stated: the callback of a subscribe-family command is invoked once,
\* by the first confirmation the server sends for that very command: the
\* reply is one the command has elicited and its target is the first channel
\* the command names, also when the command names several channels and when
\* several such commands are pending.
C24_CallbackOwnFirstConfirmation ==
    [][\A k \in 1..Len(command_queue) :
          ConfirmedToCallback(command_queue[k]) =>
              /\ Len(calls'[command_queue[k].id]) = 1
              /\ calls'[command_queue[k].id][1].rid = command_queue[k].seq
              /\ command_queue[k].args # <<>> =>
                     calls'[command_queue[k].id][1].ch = command_queue[k].args[1]]_vars

-----------------------------------------------------------------------------
(* The confirmation replies of the subscribe family                        *)

\* the reply that has just arrived is a confirmation
ConfirmationStep(tr) == DataStep(tr) /\ tr[1].name \in SubscribeFamily

\* C25 as stated: every confirmation reply sets pub_sub_mode to whether its
\* remaining count is not 0, and has the event named after its kind emitted
\* with its target and its remaining count.
C25_ConfirmationSetsMode ==
    [][ConfirmationStep(trace') =>
          /\ pub_sub_mode' = (trace'[1].n # 0)
          /\ \E i \in 1..Len(trace') :
                /\ trace'[i].t = "emit" /\ trace'[i].name = trace'[1].name
                /\ trace'[i].ch = trace'[1].ch /\ trace'[i].n = trace'[1].n]_vars

-----------------------------------------------------------------------------
(* The idle event                                                          *)

\* the reply that has just arrived has shifted a command off the pending queue
PopsHead(tr) ==
    /\ DataStep(tr)
    /\ command_queue # <<>>
    /\ ~(pub_sub_mode /\ tr[1].name \in {"message", "pmessage"})

IsErrorKind(kind) == kind \in {"ERR", "LOADING", "no password is set"}

-----------------------------------------------------------------------------
(* connection_gone while a retry is scheduled                              *)

-----------------------------------------------------------------------------
(* connect_timeout: the reconnection attempts add up to the limit          *)

\* a connect_timeout the second consecutive attempt reaches (340 + 578 ms)
SmallConnectTimeout == 500

TimeoutOptions == Options(0, 0, 0, SmallConnectTimeout, 0, TRUE, FALSE, FALSE)

SpecTimeout == InitWith({TimeoutOptions}) /\ [][NextBackoff]_vars

\* the last handler was the callback of a retry timer
RetryTimerStep(tr) == tr # <<>> /\ tr[1].t = "event" /\ tr[1].name = "retry timer"

\* C28 as stated: a retry timer that fires when retry_totaltime, with the
\* delay just waited, has reached connect_timeout makes the client emit an
\* error and constructs no transport; one that fires before that constructs
\* exactly one transport, which becomes the client's, and clears retry_timer.
C28_TimeoutIsTerminal ==
    [][RetryTimerStep(trace') =>
          IF retry_totaltime + retry_delay >= ConnectTimeout(Cur)
          THEN /\ Emitted(trace', "error")
               /\ streams' = streams /\ stream' = stream
          ELSE /\ StreamsUsed' = StreamsUsed + 1
               /\ stream' = StreamsUsed' /\ streams'[stream'] = NewStream
               /\ retry_timer' = 0
               /\ pending_timers' = pending_timers \ {trace'[1].id}]_vars

-----------------------------------------------------------------------------
(* Events of a transport that has been replaced                            *)

\* the end, close or error listener of a transport that is no longer the
\* client's has just run
StaleGoneStep(tr) == GoneStep(tr) /\ tr[1].id # stream

\* C29 as stated: the end, close or error of a transport that a reconnection
\* attempt has replaced leaves connected, ready, both queues and the
\* callbacks as they were and schedules no retry, and at no time is more than
\* one retry timer outstanding.
C29_StaleEventsIgnored ==
    [][/\ StaleGoneStep(trace') =>
             /\ connected' = connected /\ ready' = ready
             /\ command_queue' = command_queue /\ offline_queue' = offline_queue
             /\ calls' = calls
             /\ pending_timers' = pending_timers /\ retry_timer' = retry_timer
       /\ Cardinality(pending_timers') <= 1]_vars

-----------------------------------------------------------------------------
(* The drain of the offline queue                                          *)

\* on_ready has just made the client ready outside monitoring and pub/sub
\* mode: it has called send_offline_queue
DrainStep ==
    /\ ~ready /\ ready'
    /\ ~monitoring' /\ ~pub_sub_mode'

\* C30 as stated: send_offline_queue comes to an end whatever the offline
\* queue holds and whether or not the transport is writable, and it leaves
\* the offline queue empty: no entry is put back during the drain.
C30_DrainTerminates ==
    [][/\ ~hung'
       /\ DrainStep => offline_queue' = <<>>]_vars

-----------------------------------------------------------------------------
(* The offline queue at the ready event                                    *)

\* C31 as stated: when the ready event of a connection is emitted, also on a
\* connection restored in pub/sub mode or in monitoring mode, no command is
\* left in the offline queue: every one has been written to the transport or
\* failed through its callback.
C31_NoOfflineAfterReady ==
    [][Emitted(trace', "ready") => offline_queue' = <<>>]_vars

-----------------------------------------------------------------------------
(* ready and connected                                                     *)

\* C32: in every state ready implies connected.
C32_ReadyImpliesConnected == ready => connected

====
